---- MODULE Spec2Model ----
(***************************************************************************)
(* Ground Truth backend: the ingestion coordinator (app/main.py), the feed *)
(* reader (app/ingestion/rss.py), the relational store (app/db/models.py)  *)
(* and the two enrichment jobs (scripts/backfill_*.py), as a state machine.*)
(* Every database statement or commit is one atomic step; the steps of     *)
(* concurrent runs and jobs interleave freely (no cross-run locking).      *)
(***************************************************************************)
EXTENDS Integers, Sequences, FiniteSets, TLC

(***************************************************************************)
(* Bounds of the model.                                                    *)
(***************************************************************************)
\* the largest number of usable entries one fetched feed document holds
MaxFeed == 2

\* the largest --batch-size a backfill job is started with
MaxBatch == 2
\* the largest --limit a backfill job is started with
MaxCap == 1

\* Python's None, SQL NULL
None == "None"

\* the concurrent ingestion runs
Runs == {"run1", "run2"}

\* the concurrent summary backfill jobs and category backfill jobs
SJobs == {"sum1"}

CJobs == {"cat1", "cat2"}

(***************************************************************************)
(* app/sources.py: the configured sources, in list order.  The model keeps *)
(* id, name, category and active of each entry.                            *)
(***************************************************************************)
SOURCES ==
  << [id |-> "src_openai", name |-> "OpenAI", category |-> "models", active |-> TRUE],
     [id |-> "src_google_ai", name |-> "Google AI Blog", category |-> "research", active |-> TRUE] >>

\* Source rows a store can hold before the first run (seed data): same ids,
\* an older display name.
SeedSources ==
  { [id |-> SOURCES[i].id, name |-> "seed", default_category |-> SOURCES[i].category,
     active |-> TRUE, created_at |-> <<"now", "seed">>] : i \in 1..Len(SOURCES) }

(***************************************************************************)
(* app/ingestion/rss.py                                                    *)
(***************************************************************************)
\* _canonicalize_url on the links of the model: tracking parameters and the
\* fragment are dropped, what remains is reassembled.
_canonicalize_url(url) ==
  CASE url = "https://s.com/a?utm_source=x" -> "https://s.com/a"
    [] url = "https://s.com/a#top"          -> "https://s.com/a"
    [] url = "https://s.com/a"              -> "https://s.com/a"
    [] url = "https://s.com/b?fbclid=1"     -> "https://s.com/b"
    [] url = "https://s.com/b"              -> "https://s.com/b"
    [] url = "#top"                         -> ""
    [] url = "?utm_source=x"                -> ""
    [] OTHER                                -> url

canonicalize_url(url) == _canonicalize_url(url)

\* hashlib.sha1(s).hexdigest()[:12] on the identity strings of the model
Sha1Hex12(s) ==
  CASE s = "https://s.com/a" -> "4dbe1d010431"
    [] s = "https://s.com/b" -> "f5a96b2e78af"
    [] s = "A"               -> "6dcd4ce23d88"
    [] s = "B"               -> "ae4f281df5a5"
    [] OTHER                 -> "da39a3ee5e6b"

\* ORDER BY id ASC and id > last_id compare the ids as strings: the place of
\* each digest of the model in that order
IdRank(id) ==
  CASE id[2] = "4dbe1d010431" -> 1
    [] id[2] = "6dcd4ce23d88" -> 2
    [] id[2] = "ae4f281df5a5" -> 3
    [] id[2] = "da39a3ee5e6b" -> 4
    [] id[2] = "f5a96b2e78af" -> 5

\* The feed entries a fetched document can hold (title, link and a
\* resolvable timestamp present, so the entry is not dropped).
Entries ==
  { [title |-> "B", link |-> "https://s.com/b?fbclid=1", published |-> 2],
    [title |-> "https://s.com/b", link |-> "#top", published |-> 1],
    [title |-> "A", link |-> "?utm_source=x", published |-> 2] }

\* One item of parse_rss_feed's result.
ParseEntry(entry, category) ==
  LET original_url == _canonicalize_url(entry.link)
      identity_source == IF original_url # "" THEN original_url ELSE entry.title
  IN [id |-> <<"art_", Sha1Hex12(identity_source)>>,
      title |-> entry.title,
      category |-> category,
      published_at |-> entry.published,
      original_url |-> original_url]

(***************************************************************************)
(* app/db/models.py: the constraints of the tables.                        *)
(***************************************************************************)
SourcePkTaken(rows, id) == \E s \in rows : s.id = id

ArticlePkTaken(rows, id) == \E a \in rows : a.id = id

ArticleUrlTaken(rows, url) == \E a \in rows : a.canonical_url = url

\* (mutant) canonical_url declared without unique=True
ArticleIntegrityError_PkOnly(rows, row) == ArticlePkTaken(rows, row.id)

\* what makes the INSERT of an Article row raise IntegrityError
ArticleIntegrityError(rows, row) ==
  ArticlePkTaken(rows, row.id) \/ ArticleUrlTaken(rows, row.canonical_url)

SummaryPkTaken(rows, article_id) == \E s \in rows : s.article_id = article_id

\* (mutant) summaries keyed by a surrogate id, article_id not unique
SummaryIntegrityError_None(rows, row) == FALSE

\* what makes the INSERT of a Summary row raise IntegrityError
SummaryIntegrityError(rows, row) == SummaryPkTaken(rows, row.article_id)

VARIABLES
  sources,    \* table sources: a set of rows
  articles,   \* table articles: a set of rows
  summaries,  \* table summaries: a set of rows
  run,        \* run[r]: the position and locals of ingestion run r; its
              \* field saw is history: the canonical URLs r computed for
              \* the candidates it read
  sjob,       \* sjob[j]: the position and locals of summary backfill job j
  cjob,       \* cjob[j]: the position and locals of category backfill job j
  failing,    \* the ids of the articles whose external call always fails
  client,     \* the reader of the API: its last request, the response to it,
              \* and as history the items its traversal has returned (seen)
              \* and the ids listed when the traversal began (first, and
              \* fresh: it began without a cursor)
  net,        \* one process that fetches feeds in threads: the default socket
              \* timeout of the process, and the position and locals of each
              \* parse_rss_feed call
  url         \* a URL as its characters, and what was derived from it

vars == <<sources, articles, summaries, run, sjob, cjob, failing, client, net, url>>

\* what an ingestion run never touches
jobs == <<sjob, cjob, failing, client, net, url>>

\* datetime.now(UTC) and func.now(), kept symbolic: the clock as process p
\* reads it.  Timestamps are written when a row is built and never read.
Now(p) == <<"now", p>>

\* the first active source at or after index i; Len(SOURCES) + 1 when none
NextActive(i) ==
  LET S == {j \in i..Len(SOURCES) : SOURCES[j].active}
  IN IF S = {} THEN Len(SOURCES) + 1
     ELSE CHOOSE j \in S : \A k \in S : j <= k

IdleRun ==
  [pc |-> "idle", si |-> 0, left |-> 0, cur |-> <<>>, sum |-> <<>>, err |-> "",
   saw |-> {}]

\* a backfill job not started: batch_size is its argument (limit, <<>> for
\* None, is read once, for target_total), last_id is <<>> for None, batch
\* holds the ids of
\* the fetched rows and bi the place of the loop in it; touched and lost are
\* history: the ids the pass iterated over, and those whose write was lost
\* to a failed commit
IdleJob ==
  [pc |-> "idle", batch_size |-> 0, target_total |-> 0,
   processed |-> 0, last_id |-> <<>>, batch |-> <<>>, bi |-> 0, val |-> <<>>,
   touched |-> {}, lost |-> {}]

\* the calls of parse_rss_feed that may run at the same time
Calls == {"call1", "call2"}

\* no feed is being fetched: the default socket timeout is the one the
\* process started with (None, no timeout), no call has begun; parsed holds
\* what feedparser.parse gave, items the length of the list returned
IdleNet ==
  [timeout |-> <<>>, initial |-> <<>>,
   call |-> [c \in Calls |->
               [pc |-> "idle", previous_timeout |-> <<>>, parsed |-> <<>>,
                items |-> 0, raised |-> FALSE]]]

\* no URL is being looked at: u is the URL, once and twice its first and
\* second canonical form, v a URL that differs from u in tracking
\* parameters and fragment only, vonce its canonical form
NoUrl == [pc |-> "none", u |-> <<>>, once |-> <<>>, twice |-> <<>>, v |-> <<>>,
          vonce |-> <<>>]

\* a reader that has asked nothing
IdleClient ==
  [pc |-> "idle", req |-> <<>>, resp |-> <<>>, seen |-> <<>>, first |-> {},
   fresh |-> FALSE]

Init ==
  /\ sources \in {{}, SeedSources}
  /\ articles = {}
  /\ summaries = {}
  /\ run = [r \in Runs |-> IdleRun]
  /\ sjob = [j \in SJobs |-> IdleJob]
  /\ cjob = [j \in CJobs |-> IdleJob]
  /\ failing = {}
  /\ client = IdleClient
  /\ net = IdleNet
  /\ url = NoUrl

(***************************************************************************)
(* app/main.py: _persist_sources_and_articles                              *)
(***************************************************************************)
\* db = SessionLocal(); the loop over SOURCES starts at the first active one
IngestStart(r) ==
  /\ run[r].pc = "idle"
  /\ run' = [run EXCEPT ![r].pc = "source", ![r].si = NextActive(1)]
  /\ UNCHANGED <<sources, articles, summaries>>
  /\ UNCHANGED jobs

\* the loop is over: finally db.close()
IngestFinish(r) ==
  /\ run[r].pc = "source"
  /\ run[r].si > Len(SOURCES)
  /\ run' = [run EXCEPT ![r].pc = "done"]
  /\ UNCHANGED <<sources, articles, summaries>>
  /\ UNCHANGED jobs

\* existing_source = db.get(DBSource, source["id"])
IngestGetSource(r) ==
  /\ run[r].pc = "source"
  /\ run[r].si <= Len(SOURCES)
  /\ run' = [run EXCEPT ![r].pc =
               IF SourcePkTaken(sources, SOURCES[run[r].si].id)
               THEN "parse" ELSE "src_commit"]
  /\ UNCHANGED <<sources, articles, summaries>>
  /\ UNCHANGED jobs

\* db.add(db_source); db.commit(): no handler but the outer one, which
\* rolls back and re-raises
IngestCommitSource(r) ==
  /\ run[r].pc = "src_commit"
  /\ LET source == SOURCES[run[r].si]
     IN IF SourcePkTaken(sources, source.id)
        THEN /\ run' = [run EXCEPT ![r].pc = "raised",
                                   ![r].err = "IntegrityError:source"]
             /\ UNCHANGED sources
        ELSE /\ sources' = sources \cup
                  {[id |-> source.id, name |-> source.name,
                    default_category |-> source.category,
                    active |-> source.active, created_at |-> Now(r)]}
             /\ run' = [run EXCEPT ![r].pc = "parse"]
  /\ UNCHANGED <<articles, summaries>>
  /\ UNCHANGED jobs

\* parsed_articles = parse_rss_feed(...): a list of at most MaxFeed items
\* (the empty list also on a fetch failure); an exception raised by it is
\* caught and the loop continues with the next source
IngestParse(r) ==
  /\ run[r].pc = "parse"
  /\ \/ \E n \in 0..MaxFeed :
          run' = [run EXCEPT ![r].pc = "next", ![r].left = n]
     \/ run' = [run EXCEPT ![r].pc = "source",
                           ![r].si = NextActive(run[r].si + 1)]
  /\ UNCHANGED <<sources, articles, summaries>>
  /\ UNCHANGED jobs

\* db_article = DBArticle(...), built by process p; primary_category is not
\* set: NULL in the row
DBArticle(parsed_article, canonical_url, source_id, p) ==
  [id |-> parsed_article.id,
   canonical_url |-> canonical_url,
   source_id |-> source_id,
   title |-> parsed_article.title,
   category |-> parsed_article.category,
   published_at |-> parsed_article.published_at,
   ingested_at |-> Now(p),
   primary_category |-> None]

\* the head of the loop over parsed_articles, up to the existence check.
\* The list is arbitrary and each item is read once, in order: the item is
\* drawn when the loop reaches it.
IngestNext(r) ==
  /\ run[r].pc = "next"
  /\ IF run[r].left = 0
     THEN run' = [run EXCEPT ![r].pc = "source",
                             ![r].si = NextActive(run[r].si + 1)]
     ELSE \E entry \in Entries :
            LET source == SOURCES[run[r].si]
                parsed_article == ParseEntry(entry, source.category)
                canonical_url == canonicalize_url(parsed_article.original_url)
            IN IF ArticleUrlTaken(articles, canonical_url)
               THEN run' = [run EXCEPT ![r].left = @ - 1,
                                       ![r].saw = @ \cup {canonical_url}]
               ELSE run' = [run EXCEPT
                            ![r].pc = "art_commit",
                            ![r].left = @ - 1,
                            ![r].saw = @ \cup {canonical_url},
                            ![r].cur = << DBArticle(parsed_article, canonical_url,
                                                    source.id, r) >>]
  /\ UNCHANGED <<sources, articles, summaries>>
  /\ UNCHANGED jobs

\* (mutant) an upsert: the row replaces the rows it conflicts with
IngestCommitArticle_Merge(r) ==
  /\ run[r].pc = "art_commit"
  /\ LET db_article == run[r].cur[1]
     IN /\ articles' = {a \in articles : /\ a.id # db_article.id
                                          /\ a.canonical_url # db_article.canonical_url}
                        \cup {db_article}
        /\ run' = [run EXCEPT ![r].pc = "sum_get"]
  /\ UNCHANGED <<sources, summaries>>
  /\ UNCHANGED jobs

\* db.add(db_article); db.commit().  IntegrityError: db.rollback() and the
\* re-query follows.  Any other exception: db.rollback(); raise.
IngestCommitArticle(r) ==
  /\ run[r].pc = "art_commit"
  /\ LET db_article == run[r].cur[1]
     IN \/ IF ArticleIntegrityError(articles, db_article)
           THEN /\ run' = [run EXCEPT ![r].pc = "art_dup"]
                /\ UNCHANGED articles
           ELSE /\ articles' = articles \cup {db_article}
                /\ run' = [run EXCEPT ![r].pc = "sum_get"]
        \/ /\ run' = [run EXCEPT ![r].pc = "raised",
                                 ![r].err = "OperationalError:article"]
           /\ UNCHANGED articles
  /\ UNCHANGED <<sources, summaries>>
  /\ UNCHANGED jobs

\* (mutant) every IntegrityError taken for a duplicate: continue, no re-query
IngestRequery_AlwaysSkip(r) ==
  /\ run[r].pc = "art_dup"
  /\ run' = [run EXCEPT ![r].pc = "next", ![r].cur = <<>>]
  /\ UNCHANGED <<sources, articles, summaries>>
  /\ UNCHANGED jobs

\* (mutant) no handler for IntegrityError: it propagates
IngestRequery_AlwaysRaise(r) ==
  /\ run[r].pc = "art_dup"
  /\ run' = [run EXCEPT ![r].pc = "raised", ![r].err = "IntegrityError:article"]
  /\ UNCHANGED <<sources, articles, summaries>>
  /\ UNCHANGED jobs

\* after the IntegrityError: select the id by canonical_url; continue when a
\* row is there, raise when none is
IngestRequery(r) ==
  /\ run[r].pc = "art_dup"
  /\ run' = IF ArticleUrlTaken(articles, run[r].cur[1].canonical_url)
            THEN [run EXCEPT ![r].pc = "next", ![r].cur = <<>>]
            ELSE [run EXCEPT ![r].pc = "raised",
                             ![r].err = "IntegrityError:article"]
  /\ UNCHANGED <<sources, articles, summaries>>
  /\ UNCHANGED jobs

\* the texts _generate_summary_text can return
Texts == {"text1", "text2"}

SUMMARY_MODEL == "gpt-4.1-mini"

SUMMARY_VERSION == 1

\* _create_summary_if_missing up to db.add: db.get(DBSummary, article.id),
\* then _generate_summary_text, which returns None on every failure
IngestSummaryGet(r) ==
  /\ run[r].pc = "sum_get"
  /\ IF SummaryPkTaken(summaries, run[r].cur[1].id)
     THEN run' = [run EXCEPT ![r].pc = "next", ![r].cur = <<>>]
     ELSE \/ run' = [run EXCEPT ![r].pc = "next", ![r].cur = <<>>]
          \/ \E summary_text \in Texts :
               run' = [run EXCEPT
                    ![r].pc = "sum_commit",
                    ![r].sum = << [article_id |-> run[r].cur[1].id,
                                   summary_text |-> summary_text,
                                   model |-> SUMMARY_MODEL,
                                   version |-> SUMMARY_VERSION,
                                   generated_at |-> Now(r)] >>]
  /\ UNCHANGED <<sources, articles, summaries>>
  /\ UNCHANGED jobs

\* (mutant) the failed commit of the Summary is rolled back and re-raised
IngestCommitSummary_Raise(r) ==
  /\ run[r].pc = "sum_commit"
  /\ \/ IF SummaryIntegrityError(summaries, run[r].sum[1])
        THEN /\ UNCHANGED summaries
             /\ run' = [run EXCEPT ![r].pc = "raised", ![r].err = "IntegrityError:summary"]
        ELSE /\ summaries' = summaries \cup {run[r].sum[1]}
             /\ run' = [run EXCEPT ![r].pc = "next", ![r].cur = <<>>, ![r].sum = <<>>]
     \/ /\ UNCHANGED summaries
        /\ run' = [run EXCEPT ![r].pc = "raised", ![r].err = "OperationalError:summary"]
  /\ UNCHANGED <<sources, articles>>
  /\ UNCHANGED jobs

\* db.add(db_summary); db.commit(); on any exception db.rollback() and a
\* warning: nothing is raised
IngestCommitSummary(r) ==
  /\ run[r].pc = "sum_commit"
  /\ \/ IF SummaryIntegrityError(summaries, run[r].sum[1])
        THEN UNCHANGED summaries
        ELSE summaries' = summaries \cup {run[r].sum[1]}
     \/ UNCHANGED summaries
  /\ run' = [run EXCEPT ![r].pc = "next", ![r].cur = <<>>, ![r].sum = <<>>]
  /\ UNCHANGED <<sources, articles>>
  /\ UNCHANGED jobs

IngestStep(r) ==
  \/ IngestStart(r)
  \/ IngestGetSource(r)
  \/ IngestCommitSource(r)
  \/ IngestParse(r)
  \/ IngestNext(r)
  \/ IngestCommitArticle(r)
  \/ IngestRequery(r)
  \/ IngestSummaryGet(r)
  \/ IngestCommitSummary(r)
  \/ IngestFinish(r)

Next == \E r \in Runs : IngestStep(r)

Spec == Init /\ [][Next]_vars

(***************************************************************************)
(* Helpers of the two backfill scripts.                                    *)
(***************************************************************************)
Min(a, b) == IF a <= b THEN a ELSE b

\* the ids of S in ascending order
RECURSIVE SortedIds(_)
SortedIds(S) ==
  IF S = {} THEN <<>>
  ELSE LET least == CHOOSE x \in S : \A y \in S : IdRank(x) <= IdRank(y)
       IN <<least>> \o SortedIds(S \ {least})

\* a variant of FirstAfter that pages from the start each time
FirstAfter_NoCursor(matching, last_id, n) ==
  LET sorted == SortedIds(matching)
  IN SubSeq(sorted, 1, Min(n, Len(sorted)))

\* .where(id > last_id).order_by(id.asc()).limit(n) over the matching ids
FirstAfter(matching, last_id, n) ==
  LET after == IF last_id = <<>> THEN matching
               ELSE {x \in matching : IdRank(x) > IdRank(last_id[1])}
      sorted == SortedIds(after)
  IN SubSeq(sorted, 1, Min(n, Len(sorted)))

\* the arguments main() accepts: --batch-size > 0, --limit absent or > 0
Limits == {<<>>} \cup {<<n>> : n \in 1..MaxCap}

ArticleRow(id) == CHOOSE a \in articles : a.id = id

(***************************************************************************)
(* scripts/backfill_summaries.py.  The counters summarized and the printed *)
(* totals are not kept: nothing reads them.                                *)
(***************************************************************************)
\* the articles without a Summary row (outer join, article_id IS NULL)
MissingSummaryIds ==
  {a.id : a \in {x \in articles : ~SummaryPkTaken(summaries, x.id)}}

count_missing_summaries == Cardinality(MissingSummaryIds)

\* (mutant) the batch query without the filter on the missing Summary
fetch_missing_batch_NoFilter(batch_size, last_id) ==
  FirstAfter({a.id : a \in articles}, last_id, batch_size)

fetch_missing_batch(batch_size, last_id) ==
  FirstAfter(MissingSummaryIds, last_id, batch_size)

\* backfill(batch_size, limit) up to the while loop
SumCount(j) ==
  /\ sjob[j].pc = "idle"
  /\ \E batch_size \in 1..MaxBatch, limit \in Limits :
       LET total_missing == count_missing_summaries
           target_total == IF limit = <<>> THEN total_missing
                           ELSE Min(total_missing, limit[1])
       IN sjob' = [sjob EXCEPT ![j] =
            IF total_missing = 0
            THEN [IdleJob EXCEPT !.pc = "done", !.batch_size = batch_size]
            ELSE [IdleJob EXCEPT !.pc = "fetch", !.batch_size = batch_size,
                                 !.target_total = target_total]]
  /\ UNCHANGED <<sources, articles, summaries, run, cjob, failing, client, net, url>>

\* the head of the while loop and fetch_missing_batch
SumFetch(j) ==
  /\ sjob[j].pc = "fetch"
  /\ LET remaining == sjob[j].target_total - sjob[j].processed
         batch == fetch_missing_batch(Min(sjob[j].batch_size, remaining),
                                      sjob[j].last_id)
     IN sjob' = [sjob EXCEPT ![j] =
          IF sjob[j].processed >= sjob[j].target_total \/ batch = <<>>
          THEN [@ EXCEPT !.pc = "done", !.batch = <<>>, !.bi = 0]
          ELSE [@ EXCEPT !.pc = "item", !.batch = batch, !.bi = 1]]
  /\ UNCHANGED <<sources, articles, summaries, run, cjob, failing, client, net, url>>

\* where the loop over the batch goes after an item: the next item, or the
\* head of the while loop
AfterItem(job) ==
  IF job.bi < Len(job.batch)
  THEN [job EXCEPT !.pc = "item", !.bi = @ + 1, !.val = <<>>]
  ELSE [job EXCEPT !.pc = "fetch", !.val = <<>>]

\* one item of the batch up to db.add: the cap check, the counters, the
\* re-check db.get(DBSummary, article.id), generate_summary_text (which
\* returns nothing, or raises into except Exception: db.rollback())
SumItem(j) ==
  /\ sjob[j].pc = "item"
  /\ LET id == sjob[j].batch[sjob[j].bi]
         counted == [sjob[j] EXCEPT !.processed = @ + 1, !.last_id = <<id>>,
                                    !.touched = @ \cup {id}]
     IN IF sjob[j].processed >= sjob[j].target_total
        THEN sjob' = [sjob EXCEPT ![j].pc = "fetch"]
        ELSE IF SummaryPkTaken(summaries, id)
        THEN sjob' = [sjob EXCEPT ![j] = AfterItem(counted)]
        ELSE \/ sjob' = [sjob EXCEPT ![j] = AfterItem(counted)]
             \/ \E summary_text \in Texts :
                  sjob' = [sjob EXCEPT ![j] =
                    [counted EXCEPT !.pc = "commit",
                       !.val = << [article_id |-> id,
                                   summary_text |-> summary_text,
                                   model |-> SUMMARY_MODEL,
                                   version |-> SUMMARY_VERSION,
                                   generated_at |-> Now(j)] >>]]
  /\ UNCHANGED <<sources, articles, summaries, run, cjob, failing, client, net, url>>

\* a variant of SumCommit in which a failed commit ends the run
SumCommit_AbortOnFailure(j) ==
  /\ sjob[j].pc = "commit"
  /\ \/ /\ ~SummaryIntegrityError(summaries, sjob[j].val[1])
        /\ summaries' = summaries \cup {sjob[j].val[1]}
        /\ sjob' = [sjob EXCEPT ![j] = AfterItem(sjob[j])]
     \/ /\ UNCHANGED summaries
        /\ sjob' = [sjob EXCEPT ![j].pc = "done",
                                ![j].lost = @ \cup {sjob[j].val[1].article_id}]
  /\ UNCHANGED <<sources, articles, run, cjob, failing, client, net, url>>

\* db.add(DBSummary(...)); db.commit(); IntegrityError and any other
\* exception: db.rollback() and a warning, the loop goes on
SumCommit(j) ==
  /\ sjob[j].pc = "commit"
  /\ \/ IF SummaryIntegrityError(summaries, sjob[j].val[1])
        THEN /\ UNCHANGED summaries
             /\ sjob' = [sjob EXCEPT ![j] = AfterItem(sjob[j])]
        ELSE /\ summaries' = summaries \cup {sjob[j].val[1]}
             /\ sjob' = [sjob EXCEPT ![j] = AfterItem(sjob[j])]
     \/ /\ UNCHANGED summaries
        /\ sjob' = [sjob EXCEPT ![j] =
             AfterItem([sjob[j] EXCEPT !.lost = @ \cup {sjob[j].val[1].article_id}])]
  /\ UNCHANGED <<sources, articles, run, cjob, failing, client, net, url>>

\* the job is run again (a scheduled re-scan)
SumRestart(j) ==
  /\ sjob[j].pc = "done"
  /\ sjob' = [sjob EXCEPT ![j] = IdleJob]
  /\ UNCHANGED <<sources, articles, summaries, run, cjob, failing, client, net, url>>

SumStep(j) ==
  \/ SumCount(j)
  \/ SumFetch(j)
  \/ SumItem(j)
  \/ SumCommit(j)
  \/ SumRestart(j)

\* one ingestion run with inline enrichment beside the summary backfill
NextSummary ==
  \/ IngestStep("run1")
  \/ \E j \in SJobs : SumStep(j)

SpecSummary == Init /\ [][NextSummary]_vars

(***************************************************************************)
(* scripts/backfill_primary_categories.py.  fallback_count and the printed *)
(* totals are not kept: nothing reads them.                                *)
(***************************************************************************)
ALLOWED_CATEGORIES ==
  {"models", "research", "products", "open_source", "hardware", "regulation"}

FALLBACK_CATEGORY == "uncategorized"

\* what the model can answer: a label in another case with white space
\* around it, a label outside the list, the empty string
RawLabels == {" Models\n", "sports", ""}

\* value.strip().lower() on the answers of the model
StripLower(value) ==
  CASE value = " Models\n" -> "models"
    [] OTHER                 -> value

\* a variant of _normalize_category without the check against the list
_normalize_category_NoCheck(value) ==
  IF value = None \/ value = "" THEN FALLBACK_CATEGORY
  ELSE StripLower(value)

_normalize_category(value) ==
  IF value = None \/ value = "" THEN FALLBACK_CATEGORY
  ELSE LET normalized == StripLower(value)
       IN IF normalized \in ALLOWED_CATEGORIES THEN normalized
          ELSE FALLBACK_CATEGORY

\* (mutant) a failed call leaves the category absent
classify_article_NoneOnFailure(id) ==
  IF id \in failing THEN {None}
  ELSE {_normalize_category(raw) : raw \in RawLabels}

\* the values classify_article can return for article id: the fallback when
\* the call fails (no key, API error, no choices, no content), the
\* normalized answer otherwise
classify_article(id) ==
  IF id \in failing THEN {FALLBACK_CATEGORY}
  ELSE {_normalize_category(raw) : raw \in RawLabels}

\* the articles with a Summary row whose primary_category is NULL
MissingCategoryIds ==
  {a.id : a \in {x \in articles : /\ SummaryPkTaken(summaries, x.id)
                                  /\ x.primary_category = None}}

count_missing_primary_categories == Cardinality(MissingCategoryIds)

\* the next batch_size articles after last_id, by id, among those with a
\* Summary row and a NULL primary_category
fetch_batch(batch_size, last_id) ==
  FirstAfter(MissingCategoryIds, last_id, batch_size)

\* UPDATE articles SET primary_category = value WHERE id = id
SetPrimaryCategory(id, value) ==
  {IF a.id = id THEN [a EXCEPT !.primary_category = value] ELSE a : a \in articles}

\* backfill(batch_size, limit) up to the while loop
CatCount(j) ==
  /\ cjob[j].pc = "idle"
  /\ \E batch_size \in 1..MaxBatch, limit \in Limits :
       LET total_missing == count_missing_primary_categories
           target_total == IF limit = <<>> THEN total_missing
                           ELSE Min(total_missing, limit[1])
       IN cjob' = [cjob EXCEPT ![j] =
            IF total_missing = 0
            THEN [IdleJob EXCEPT !.pc = "done", !.batch_size = batch_size]
            ELSE [IdleJob EXCEPT !.pc = "fetch", !.batch_size = batch_size,
                                 !.target_total = target_total]]
  /\ UNCHANGED <<sources, articles, summaries, run, sjob, failing, client, net, url>>

\* the head of the while loop and fetch_batch
CatFetch(j) ==
  /\ cjob[j].pc = "fetch"
  /\ LET remaining == cjob[j].target_total - cjob[j].processed
         batch == fetch_batch(Min(cjob[j].batch_size, remaining), cjob[j].last_id)
     IN cjob' = [cjob EXCEPT ![j] =
          IF cjob[j].processed >= cjob[j].target_total \/ batch = <<>>
          THEN [@ EXCEPT !.pc = "done", !.batch = <<>>, !.bi = 0]
          ELSE [@ EXCEPT !.pc = "item", !.batch = batch, !.bi = 1]]
  /\ UNCHANGED <<sources, articles, summaries, run, sjob, failing, client, net, url>>

\* article.primary_category as the session can hold it when the loop reaches
\* the item.  The first object of a batch holds what fetch_batch loaded
\* (NULL, the query's filter).  A later object holds the same NULL when the
\* session keeps its objects over a commit, and is loaded again from the row
\* when commit and rollback expire them; which of the two SessionLocal
\* (app/db/session.py) is set up for is not fixed here, so both are admitted.
LoadedPrimaryCategory(j) ==
  IF cjob[j].bi = 1 THEN {None}
  ELSE {None, ArticleRow(cjob[j].batch[cjob[j].bi]).primary_category}

\* one item of the batch up to db.add: the cap check, the counters, the
\* re-check of article.primary_category, classify_article (which returns a
\* value, or raises into the except branch)
CatItem(j) ==
  /\ cjob[j].pc = "item"
  /\ LET id == cjob[j].batch[cjob[j].bi]
         counted == [cjob[j] EXCEPT !.processed = @ + 1, !.last_id = <<id>>,
                                    !.touched = @ \cup {id}]
     IN IF cjob[j].processed >= cjob[j].target_total
        THEN cjob' = [cjob EXCEPT ![j].pc = "fetch"]
        ELSE \E loaded \in LoadedPrimaryCategory(j) :
          IF loaded # None
          THEN cjob' = [cjob EXCEPT ![j] = AfterItem(counted)]
          ELSE \/ \E assigned \in classify_article(id) :
                    cjob' = [cjob EXCEPT ![j] =
                      [counted EXCEPT !.pc = "commit", !.val = <<assigned>>]]
               \/ /\ id \in failing
                  /\ cjob' = [cjob EXCEPT ![j] = [counted EXCEPT !.pc = "fallback"]]
  /\ UNCHANGED <<sources, articles, summaries, run, sjob, failing, client, net, url>>

\* article.primary_category = assigned; db.add(article); db.commit(); a
\* failed commit goes to the except branch
CatCommit(j) ==
  /\ cjob[j].pc = "commit"
  /\ \/ /\ articles' = SetPrimaryCategory(cjob[j].batch[cjob[j].bi], cjob[j].val[1])
        /\ cjob' = [cjob EXCEPT ![j] = AfterItem(cjob[j])]
     \/ /\ UNCHANGED articles
        /\ cjob' = [cjob EXCEPT ![j].pc = "fallback", ![j].val = <<>>]
  /\ UNCHANGED <<sources, summaries, run, sjob, failing, client, net, url>>

\* except Exception: db.rollback(); article.primary_category =
\* FALLBACK_CATEGORY; db.add(article); db.commit(); a failed commit is rolled
\* back with a warning
CatCommitFallback(j) ==
  /\ cjob[j].pc = "fallback"
  /\ \/ /\ articles' = SetPrimaryCategory(cjob[j].batch[cjob[j].bi], FALLBACK_CATEGORY)
        /\ cjob' = [cjob EXCEPT ![j] = AfterItem(cjob[j])]
     \/ /\ UNCHANGED articles
        /\ cjob' = [cjob EXCEPT ![j] =
             AfterItem([cjob[j] EXCEPT !.lost = @ \cup {cjob[j].batch[cjob[j].bi]}])]
  /\ UNCHANGED <<sources, summaries, run, sjob, failing, client, net, url>>

\* the job is run again (a scheduled re-scan)
CatRestart(j) ==
  /\ cjob[j].pc = "done"
  /\ cjob' = [cjob EXCEPT ![j] = IdleJob]
  /\ UNCHANGED <<sources, articles, summaries, run, sjob, failing, client, net, url>>

CatStep(j) ==
  \/ CatCount(j)
  \/ CatFetch(j)
  \/ CatItem(j)
  \/ CatCommit(j)
  \/ CatCommitFallback(j)
  \/ CatRestart(j)

\* The store the category backfill starts from: three articles as ingestion
\* left them, the first two summarized, the third with or without a Summary.
CatalogEntries ==
  << [title |-> "A", link |-> "https://s.com/a?utm_source=x", published |-> 1],
     [title |-> "A", link |-> "?utm_source=x", published |-> 2],
     [title |-> "B", link |-> "https://s.com/b?fbclid=1", published |-> 2] >>

CatalogArticles ==
  { LET parsed_article == ParseEntry(CatalogEntries[i], SOURCES[1].category)
    IN DBArticle(parsed_article, canonicalize_url(parsed_article.original_url),
                 SOURCES[1].id, "seed") : i \in 1..Len(CatalogEntries) }

CatalogIds == SortedIds({a.id : a \in CatalogArticles})

CatalogSummary(id) ==
  [article_id |-> id, summary_text |-> "text1", model |-> SUMMARY_MODEL,
   version |-> SUMMARY_VERSION, generated_at |-> Now("seed")]

InitCategory ==
  /\ sources = SeedSources
  /\ articles = CatalogArticles
  /\ summaries \in { {CatalogSummary(CatalogIds[i]) : i \in 1..n} : n \in 2..3 }
  /\ run = [r \in Runs |-> IdleRun]
  /\ sjob = [j \in SJobs |-> IdleJob]
  /\ cjob = [j \in CJobs |-> IdleJob]
  /\ failing \in SUBSET {CatalogIds[1]}
  /\ client = IdleClient
  /\ net = IdleNet
  /\ url = NoUrl

NextCategory == \E j \in CJobs : CatStep(j)

SpecCategory == InitCategory /\ [][NextCategory]_vars

(***************************************************************************)
(* Properties of the ingestion runs, checked under Spec.                   *)
(***************************************************************************)
AllRunsDone == \A r \in Runs : run[r].pc = "done"

\* every canonical URL a run computed for a candidate
Seen == UNION {run[r].saw : r \in Runs}

\* C1: in every reachable state, under any interleaving of the ingestion
\* runs, no two Article rows have the same canonical_url.
C1_UniqueCanonicalUrl ==
  \A a, b \in articles : a.canonical_url = b.canonical_url => a = b

\* a run is about to commit an Article whose canonical URL another run
\* inserted after this run's existence check
C1_Witness ==
  \E r \in Runs :
    /\ run[r].pc = "art_commit"
    /\ ArticleUrlTaken(articles, run[r].cur[1].canonical_url)

\* C2: when the runs have all finished (none raised: no persistence failure
\* but canonical-URL conflicts), the Article rows are as many as the distinct
\* canonical URLs the runs saw, and every URL seen has exactly one row.
C2_RowCountIsDistinctUrls ==
  AllRunsDone =>
    /\ Cardinality(articles) = Cardinality(Seen)
    /\ \A u \in Seen : Cardinality({a \in articles : a.canonical_url = u}) = 1

\* both runs finished over overlapping feeds, the Source rows present from
\* the start, each run having inserted one of two rows
C2_Witness ==
  /\ AllRunsDone
  /\ SeedSources \subseteq sources
  /\ run["run1"].saw \cap run["run2"].saw # {}
  /\ Cardinality(articles) = 2
  /\ \E a, b \in articles : a.ingested_at # b.ingested_at

\* C3: an Article insert that failed with the uniqueness violation of a
\* canonical URL a concurrent run inserted in between writes nothing, the
\* re-query finds the row, nothing is raised and the run goes on with the
\* next candidate of the same source.
C3_ConflictIsSkip ==
  [][\A r \in Runs :
       LET taken == ArticleUrlTaken(articles, run[r].cur[1].canonical_url)
       IN /\ ( /\ run[r].pc = "art_commit"
               /\ run'[r] # run[r]
               /\ taken
               /\ run'[r].err # "OperationalError:article" )
             => ( /\ run'[r].pc = "art_dup"
                  /\ articles' = articles )
          /\ ( /\ run[r].pc = "art_dup"
               /\ run'[r] # run[r]
               /\ taken )
             => ( /\ run'[r].pc = "next"
                  /\ run'[r].err = ""
                  /\ run'[r].si = run[r].si
                  /\ run'[r].left = run[r].left
                  /\ articles' = articles )]_vars

\* a run lost the race on a canonical URL, with a candidate of the same
\* source still to come
C3_Witness ==
  \E r \in Runs :
    /\ run[r].pc = "art_dup"
    /\ ArticleUrlTaken(articles, run[r].cur[1].canonical_url)
    /\ run[r].left > 0

\* C4: after a persistence failure at Article insert time that is no
\* uniqueness conflict, every active source after the failing article's
\* source is still attempted in the same run (as stated; the code ends the
\* run there).
C4_LaterSourcesAttempted ==
  \A r \in Runs :
    (run[r].pc = "raised" /\ run[r].err = "OperationalError:article")
      => NextActive(run[r].si + 1) > Len(SOURCES)

\* C5: no run ends with an uncaught error when runs start concurrently on
\* an empty store and both try to insert the same Source row (as stated; the
\* loser's commit raises IntegrityError out of the run).
C5_NoRunRaisesOnSourceRace ==
  \A r \in Runs :
    ~(run[r].pc = "raised" /\ run[r].err = "IntegrityError:source")

\* C6: a step of an ingestion run leaves every persisted Article row and
\* every persisted Source row as it is, field for field.
C6_PersistedRowsUnchanged ==
  [][ /\ \A a \in articles : a \in articles'
      /\ \A s \in sources : s \in sources' ]_vars

\* a finished run read a candidate whose canonical URL has a row that
\* another run inserted, with the Source rows there since before the run
C6_Witness ==
  \E r \in Runs : \E a \in articles :
    /\ run[r].pc = "done"
    /\ a.canonical_url \in run[r].saw
    /\ a.ingested_at # Now(r)
    /\ sources = SeedSources

\* C7: when generation returns nothing or fails, or the Summary commit
\* fails, the Article just inserted stays persisted, no Summary is written,
\* nothing is raised and the run goes on with the next candidate.
C7_EnrichmentBestEffort ==
  [][\A r \in Runs :
       /\ ( /\ run[r].pc = "sum_get"
            /\ run'[r] # run[r]
            /\ run'[r].pc # "sum_commit" )
          => ( /\ run'[r].pc = "next"
               /\ run'[r].err = ""
               /\ run'[r].si = run[r].si
               /\ run'[r].left = run[r].left
               /\ run[r].cur[1] \in articles'
               /\ summaries' = summaries )
       /\ ( /\ run[r].pc = "sum_commit"
            /\ run'[r] # run[r]
            /\ run[r].sum[1] \notin summaries' )
          => ( /\ run'[r].pc = "next"
               /\ run'[r].err = ""
               /\ run'[r].si = run[r].si
               /\ run'[r].left = run[r].left
               /\ run[r].cur[1] \in articles'
               /\ summaries' = summaries )]_vars

\* the runs finished without raising and an inserted Article has no Summary
C7_Witness ==
  /\ AllRunsDone
  /\ \E a \in articles : ~SummaryPkTaken(summaries, a.id)

(***************************************************************************)
(* Properties of summary creation, checked under SpecSummary.              *)
(***************************************************************************)
\* C8: under any interleaving of inline summary creation and the summary
\* backfill, an Article has at most one Summary row, a Summary row once
\* written never changes, and the writer that loses the race on an article
\* writes nothing and goes on with its run.
C8_SummaryCreateOnce ==
  [][ /\ \A s \in summaries : s \in summaries'
      /\ \A s, t \in summaries' : s.article_id = t.article_id => s = t
      /\ \A j \in SJobs :
           ( /\ sjob[j].pc = "commit"
             /\ sjob'[j] # sjob[j]
             /\ SummaryPkTaken(summaries, sjob[j].val[1].article_id) )
           => ( /\ summaries' = summaries
                /\ sjob'[j].pc \in {"item", "fetch"} )
      /\ \A r \in Runs :
           ( /\ run[r].pc = "sum_commit"
             /\ run'[r] # run[r]
             /\ SummaryPkTaken(summaries, run[r].sum[1].article_id) )
           => ( /\ summaries' = summaries
                /\ run'[r].pc = "next"
                /\ run'[r].err = "" ) ]_vars

\* the backfill job is about to commit a Summary for an article that got
\* one, with another text, from the ingestion run in between
C8_Witness ==
  \E j \in SJobs :
    /\ sjob[j].pc = "commit"
    /\ \E s \in summaries :
         /\ s.article_id = sjob[j].val[1].article_id
         /\ s.summary_text # sjob[j].val[1].summary_text
         /\ s.generated_at = Now("run1")

(***************************************************************************)
(* Properties of the category backfill, checked under SpecCategory.        *)
(***************************************************************************)
PrimaryCategoryOf(id) == ArticleRow(id).primary_category

\* C9: once primary_category of an Article has a value, no step writes
\* another value to it (as stated; two concurrent jobs that fetched the same
\* article both write).
C9_WrittenAtMostOnce ==
  [][\A a \in articles : a.primary_category # None => a \in articles']_vars

\* C10: when a pass of the category backfill ends, every article it went
\* over whose classification call always fails has the fallback label
\* (unless the commit of the fallback itself failed), and a batch is never
\* fetched with an article whose primary_category is set: no later pass
\* selects it again.
C10_FallbackPermanence ==
  [][ /\ \A j \in CJobs :
           cjob'[j].pc = "done" =>
             \A id \in (cjob'[j].touched \cap failing) \ cjob'[j].lost :
               PrimaryCategoryOf(id)' = FALLBACK_CATEGORY
      /\ \A j \in CJobs :
           (cjob[j].pc = "fetch" /\ cjob'[j].pc = "item") =>
             \A i \in 1..Len(cjob'[j].batch) :
               PrimaryCategoryOf(cjob'[j].batch[i]) = None ]_vars

\* a pass ended with the fallback on an article whose classification always
\* fails, and the first batch of another pass starts after that article
C10_Witness ==
  \E j, k \in CJobs : \E id \in failing :
    /\ j # k
    /\ cjob[j].pc = "done"
    /\ id \in cjob[j].touched
    /\ PrimaryCategoryOf(id) = FALLBACK_CATEGORY
    /\ SummaryPkTaken(summaries, id)
    /\ cjob[k].pc = "item"
    /\ cjob[k].last_id = <<>>
    /\ IdRank(cjob[k].batch[1]) > IdRank(id)

(***************************************************************************)
(* Repeated backfill runs over a fixed store: one job at a time, run again *)
(* whenever it has ended, nothing else writing.  The runs are taken under  *)
(* the conditions the convergence statements assume: the external call     *)
(* fails exactly for the articles in failing, and every commit goes        *)
(* through.                                                                *)
(***************************************************************************)
\* generate_summary_text returns text for every article outside failing and
\* nothing (or raises) for those inside; db.commit() succeeds
SummaryCallsAsAssumed(j) ==
  /\ sjob[j].pc = "item" =>
       LET id == sjob[j].batch[sjob[j].bi]
       IN IF id \in failing THEN sjob'[j].pc # "commit"
          ELSE SummaryPkTaken(summaries, id) \/ sjob'[j].pc = "commit"
  /\ sjob'[j].lost = sjob[j].lost

\* the store the repeated summary backfill starts from: the catalog's
\* articles, none summarized
InitBacklog ==
  /\ sources = SeedSources
  /\ articles = CatalogArticles
  /\ summaries = {}
  /\ run = [r \in Runs |-> IdleRun]
  /\ sjob = [j \in SJobs |-> IdleJob]
  /\ cjob = [j \in CJobs |-> IdleJob]
  /\ failing \in {{}} \cup {{CatalogIds[i]} : i \in 1..Len(CatalogIds)}
  /\ client = IdleClient
  /\ net = IdleNet
  /\ url = NoUrl

NextSummaryRepeat ==
  \/ SumCount("sum1") /\ SummaryCallsAsAssumed("sum1")
  \/ SumFetch("sum1") /\ SummaryCallsAsAssumed("sum1")
  \/ SumItem("sum1") /\ SummaryCallsAsAssumed("sum1")
  \/ SumCommit("sum1") /\ SummaryCallsAsAssumed("sum1")
  \/ SumRestart("sum1") /\ SummaryCallsAsAssumed("sum1")

SpecSummaryRepeat ==
  InitBacklog /\ [][NextSummaryRepeat]_vars /\ WF_vars(NextSummaryRepeat)

\* db.commit() succeeds in the category backfill
CategoryCallsAsAssumed(j) ==
  /\ cjob[j].pc = "commit" => cjob'[j].pc # "fallback"
  /\ cjob'[j].lost = cjob[j].lost

NextCategoryRepeat ==
  \/ CatCount("cat1") /\ CategoryCallsAsAssumed("cat1")
  \/ CatFetch("cat1") /\ CategoryCallsAsAssumed("cat1")
  \/ CatItem("cat1") /\ CategoryCallsAsAssumed("cat1")
  \/ CatCommit("cat1") /\ CategoryCallsAsAssumed("cat1")
  \/ CatCommitFallback("cat1") /\ CategoryCallsAsAssumed("cat1")
  \/ CatRestart("cat1") /\ CategoryCallsAsAssumed("cat1")

SpecCategoryRepeat ==
  InitCategory /\ [][NextCategoryRepeat]_vars /\ WF_vars(NextCategoryRepeat)

\* the articles whose primary_category is absent, summarized or not
AbsentCategoryIds == {a.id : a \in {x \in articles : x.primary_category = None}}

\* C11: on a fixed store, with a classifier that always succeeds, repeated
\* runs of the category backfill reach a store where no article, summarized
\* or not, has an absent primary_category (as stated; an article without a
\* Summary is never selected).
C11_CategoryBackfillConverges ==
  (failing = {}) => <>[](AbsentCategoryIds = {})

\* what count_missing_summaries was when the run of job j began: nothing
\* but the run writes, and it writes only for the articles it went over
MissingAtRunStart(j) == MissingSummaryIds \cup sjob[j].touched

\* C12: with a generator that returns text for every article, for every
\* batch size and every cap, each run of the summary backfill that finds
\* articles without a Summary ends with fewer of them than it began with, and
\* repeated runs reach a store where every article has a Summary.
C12_SummaryBackfillConverges ==
  /\ [](\A j \in SJobs :
          (failing = {} /\ sjob[j].pc = "done" /\ sjob[j].target_total > 0) =>
            Cardinality(MissingSummaryIds) < Cardinality(MissingAtRunStart(j)))
  /\ ((failing = {}) => <>[](count_missing_summaries = 0))

\* a run capped below the backlog has ended: it summarized one article and
\* left two for the runs after it
C12_Witness ==
  \E j \in SJobs :
    /\ failing = {}
    /\ sjob[j].pc = "done"
    /\ sjob[j].target_total = 1
    /\ Cardinality(MissingAtRunStart(j)) = 3
    /\ count_missing_summaries = 2

\* C13: when generation always fails for one article, repeated runs of the
\* summary backfill, whatever their batch size and cap, reach a store where
\* every other article has a Summary (as stated; runs capped at one item
\* start over at the failing article every time).
C13_BadArticleDoesNotBlock ==
  <>[](MissingSummaryIds \subseteq failing)

(***************************************************************************)
(* app/main.py: the read endpoints.  A handler reads the store in one      *)
(* step; the reader follows next_cursor from page to page while ingestion  *)
(* goes on.                                                                *)
(***************************************************************************)
MaxLimit == 2

VALID_CATEGORIES ==
  {"models", "research", "products", "open_source", "hardware", "regulation"}

\* A timestamp in ISO 8601 is a wall-clock reading t with a UTC offset off
\* ("Z" is offset 0); iso is FALSE for a string that is no timestamp.
\* _datetime_to_iso8601 on a naive value of the store: taken as UTC,
\* written with "Z"
_datetime_to_iso8601(value) == [iso |-> TRUE, t |-> value, off |-> 0]

\* the cursors a reader can send besides those a response gave it: a
\* timestamp with another offset, and a string that is no timestamp
ForeignCursors == {[iso |-> TRUE, t |-> 3, off |-> 1], [iso |-> FALSE, t |-> 0, off |-> 0]}

\* _parse_cursor(cursor).replace(tzinfo=None): the reading brought to UTC;
\* <<>> when _parse_iso8601 raises ValueError (HTTP 400)
_parse_cursor(cursor) ==
  IF ~cursor.iso THEN <<>> ELSE <<cursor.t - cursor.off>>

\* the values of the sources parameter of the model
SourcesParams == {"", ",", "src_openai", " src_openai ,nope", "src_google_ai"}

\* sources.split(",")
SplitComma(value) ==
  CASE value = ""                  -> <<"">>
    [] value = ","                 -> <<"", "">>
    [] value = " src_openai ,nope" -> <<" src_openai ", "nope">>
    [] OTHER                       -> <<value>>

\* value.strip()
Strip(value) ==
  CASE value = " src_openai " -> "src_openai"
    [] OTHER                  -> value

\* source_ids as the handlers compute it from the sources parameter (<<>>
\* when omitted): <<>> for None, <<S>> for the set S
SourceIds(sources_param) ==
  IF sources_param = <<>> \/ sources_param[1] = "" THEN <<>>
  ELSE LET parts == SplitComma(sources_param[1])
           requested_ids == {Strip(parts[i]) : i \in 1..Len(parts)} \ {""}
       IN << {src.id : src \in {x \in sources : x.active /\ x.id \in requested_ids}} >>

\* (mutant) the listing query with an outer join to Summary
Matching_OuterJoin(category, source_ids, cursor_dt) ==
  {a \in articles :
     /\ (category # <<>> => a.primary_category = category[1])
     /\ (source_ids # <<>> => a.source_id \in source_ids[1])
     /\ (cursor_dt # <<>> => a.published_at < cursor_dt[1])}

\* the rows the listing query matches before ORDER BY and LIMIT: joined to a
\* Summary, of the category (<<>> for /v1/feed), of the sources, before the
\* cursor
Matching(category, source_ids, cursor_dt) ==
  {a \in articles :
     /\ SummaryPkTaken(summaries, a.id)
     /\ (category # <<>> => a.primary_category = category[1])
     /\ (source_ids # <<>> => a.source_id \in source_ids[1])
     /\ (cursor_dt # <<>> => a.published_at < cursor_dt[1])}

\* ORDER BY published_at DESC LIMIT n: the results the store can give.  Rows
\* with the same published_at come in any order.
QueryResults(matching, n) ==
  LET k == Min(n, Cardinality(matching))
  IN {rows \in [1..k -> matching] :
        /\ \A i, j \in 1..k : i < j => /\ rows[i] # rows[j]
                                       /\ rows[i].published_at >= rows[j].published_at
        /\ \A a \in matching :
             (\A i \in 1..k : rows[i] # a) =>
               \A i \in 1..k : rows[i].published_at >= a.published_at}

\* article.summary.summary_text (the join makes sure the row is there)
SummaryText(id) ==
  IF SummaryPkTaken(summaries, id)
  THEN (CHOOSE sm \in summaries : sm.article_id = id).summary_text
  ELSE None

_article_to_response_item(article) ==
  [id |-> article.id,
   published_at |-> _datetime_to_iso8601(article.published_at),
   summary |-> SummaryText(article.id),
   source |-> article.source_id,
   original_url |-> article.canonical_url]

\* (mutant) no extra row fetched: a full page always announces another
FeedPage_FullPageHasNext(rows, limit) ==
  LET page_articles == SubSeq(rows, 1, Min(limit, Len(rows)))
  IN [status |-> 200,
      items |-> [i \in 1..Len(page_articles) |->
                   _article_to_response_item(page_articles[i])],
      next_cursor |->
        IF Len(page_articles) = limit
        THEN <<_datetime_to_iso8601(page_articles[Len(page_articles)].published_at)>>
        ELSE <<>>]

\* page_articles = articles[:limit], items and next_cursor
FeedPage(rows, limit) ==
  LET page_articles == SubSeq(rows, 1, Min(limit, Len(rows)))
  IN [status |-> 200,
      items |-> [i \in 1..Len(page_articles) |->
                   _article_to_response_item(page_articles[i])],
      next_cursor |->
        IF Len(rows) > limit /\ page_articles # <<>>
        THEN <<_datetime_to_iso8601(page_articles[Len(page_articles)].published_at)>>
        ELSE <<>>]

EmptyPage == [status |-> 200, items |-> <<>>, next_cursor |-> <<>>]

\* the body both listing handlers share: the responses the handler can give
Listing(category, limit, cursor, sources_param) ==
  LET source_ids == SourceIds(sources_param)
      cursor_dt == IF cursor = <<>> THEN <<>> ELSE _parse_cursor(cursor[1])
  IN IF source_ids # <<>> /\ source_ids[1] = {}
     THEN {EmptyPage}
     ELSE IF cursor # <<>> /\ cursor_dt = <<>>
     THEN {[status |-> 400, items |-> <<>>, next_cursor |-> <<>>]}
     ELSE {FeedPage(rows, limit) :
             rows \in QueryResults(Matching(category, source_ids, cursor_dt),
                                   limit + 1)}

\* GET /v1/feed
get_feed(limit, cursor, sources_param) ==
  Listing(<<>>, limit, cursor, sources_param)

\* GET /v1/feed/{category}
get_feed_by_category(category, limit, cursor, sources_param) ==
  IF category \notin VALID_CATEGORIES
  THEN {[status |-> 404, items |-> <<>>, next_cursor |-> <<>>]}
  ELSE Listing(<<category>>, limit, cursor, sources_param)

\* GET /v1/articles/{id}
get_article_by_id(id) ==
  LET found == {a \in articles : SummaryPkTaken(summaries, a.id) /\ a.id = id}
  IN IF found # {}
     THEN LET article == CHOOSE a \in found : TRUE
          IN [status |-> 200,
              items |-> << [id |-> article.id,
                            summary |-> SummaryText(article.id),
                            published_at |-> _datetime_to_iso8601(article.published_at),
                            original_url |-> article.canonical_url] >>,
              next_cursor |-> <<>>]
     ELSE [status |-> 404, items |-> <<>>, next_cursor |-> <<>>]

\* the requests of the model: both listings with every sources parameter
\* and no cursor, GET /v1/feed with a cursor of the reader's own, and both
\* listings with a cursor that is no timestamp
Requests ==
  [category : {<<>>, <<"models">>, <<"industry">>},
   limit : 1..MaxLimit,
   cursor : {<<>>},
   sources : {<<>>} \cup {<<p>> : p \in SourcesParams}]
  \cup
  [category : {<<>>},
   limit : 1..MaxLimit,
   cursor : {<<c>> : c \in ForeignCursors},
   sources : {<<>>}]
  \cup
  [category : {<<>>, <<"models">>, <<"industry">>},
   limit : {1},
   cursor : {<<c>> : c \in {x \in ForeignCursors : ~x.iso}},
   sources : {<<>>, <<",">>, <<"src_openai">>}]

\* the ids a reader asks the detail endpoint for
DetailIds ==
  {<<"art_", d>> : d \in {"4dbe1d010431", "6dcd4ce23d88", "f5a96b2e78af", "ae4f281df5a5"}}

\* the responses to a listing request
Answers(req) ==
  IF req.category = <<>>
  THEN get_feed(req.limit, req.cursor, req.sources)
  ELSE get_feed_by_category(req.category[1], req.limit, req.cursor, req.sources)

\* the ids a listing request without cursor lists, page after page
Listed(req) ==
  {a.id : a \in Matching(req.category, SourceIds(req.sources), <<>>)}

\* the reader asks for the first page of a listing
ClientFirstPage ==
  /\ client.pc = "idle"
  /\ \E req \in Requests : \E resp \in Answers(req) :
       client' = [pc |-> "page", req |-> <<req>>, resp |-> <<resp>>,
                  seen |-> resp.items, first |-> Listed(req),
                  fresh |-> req.cursor = <<>>]
  /\ UNCHANGED <<sources, articles, summaries, run, sjob, cjob, failing, net, url>>

\* the reader sends the same request with cursor = next_cursor
ClientNextPage ==
  /\ client.pc = "page"
  /\ client.resp[1].next_cursor # <<>>
  /\ LET req == [client.req[1] EXCEPT !.cursor = client.resp[1].next_cursor]
     IN \E resp \in Answers(req) :
          client' = [client EXCEPT !.req = <<req>>, !.resp = <<resp>>,
                                   !.seen = @ \o resp.items]
  /\ UNCHANGED <<sources, articles, summaries, run, sjob, cjob, failing, net, url>>

\* the reader asks for one article
ClientDetail ==
  /\ client.pc = "idle"
  /\ \E id \in DetailIds :
       client' = [pc |-> "detail", req |-> <<id>>,
                  resp |-> <<get_article_by_id(id)>>, seen |-> <<>>, first |-> {},
                  fresh |-> FALSE]
  /\ UNCHANGED <<sources, articles, summaries, run, sjob, cjob, failing, net, url>>

\* the reader is done with what it asked
ClientReset ==
  /\ client.pc # "idle"
  /\ client' = IdleClient
  /\ UNCHANGED <<sources, articles, summaries, run, sjob, cjob, failing, net, url>>

ClientStep ==
  \/ ClientFirstPage
  \/ ClientNextPage
  \/ ClientDetail
  \/ ClientReset

\* The store the readers find: an article of an earlier run, summarized and
\* categorized, of a source that is active in the table or was switched off
\* there; the row of the other source can be missing.
FeedSeedArticle ==
  LET parsed_article == ParseEntry([title |-> "A", link |-> "https://s.com/a#top",
                                    published |-> 2], SOURCES[2].category)
  IN [DBArticle(parsed_article, canonicalize_url(parsed_article.original_url),
                SOURCES[2].id, "seed") EXCEPT !.primary_category = "models"]

\* the rows of the table sources with the source of the seed article
\* switched off
SeedSourcesSwitchedOff ==
  {IF src.id = SOURCES[2].id THEN [src EXCEPT !.active = FALSE] ELSE src :
     src \in SeedSources}

InitFeed ==
  /\ sources \in { SeedSources,
                   SeedSourcesSwitchedOff,
                   {src \in SeedSourcesSwitchedOff : src.id = SOURCES[2].id} }
  /\ articles = {FeedSeedArticle}
  /\ summaries = {CatalogSummary(FeedSeedArticle.id)}
  /\ run = [r \in Runs |-> IdleRun]
  /\ sjob = [j \in SJobs |-> IdleJob]
  /\ cjob = [j \in CJobs |-> IdleJob]
  /\ failing = {}
  /\ client = IdleClient
  /\ net = IdleNet
  /\ url = NoUrl

\* one ingestion run beside the reader
NextFeed ==
  \/ IngestStep("run1")
  \/ ClientStep

SpecFeed == InitFeed /\ [][NextFeed]_vars

(***************************************************************************)
(* Properties of the read endpoints, checked under SpecFeed.               *)
(***************************************************************************)
\* the reader has the last page of a traversal
TraversalEnded ==
  /\ client.pc = "page"
  /\ client.resp[1].status = 200
  /\ client.resp[1].next_cursor = <<>>

SeenIds(seen) == {seen[i].id : i \in 1..Len(seen)}

NoRepeat(seen) == \A i, j \in 1..Len(seen) : seen[i].id = seen[j].id => i = j

\* the step is a listing request answered with a page
ListingAnswered ==
  /\ client'.pc = "page"
  /\ client' # client
  /\ client'.resp[1].status = 200

\* the active sources among the ids a sources parameter names
RequestedActive(sources_param) ==
  LET parts == SplitComma(sources_param)
  IN {src.id : src \in {x \in sources :
                          /\ x.active
                          /\ \E i \in 1..Len(parts) : Strip(parts[i]) = x.id}}

\* C14: on a store that did not change during the traversal, following
\* next_cursor from a request without cursor until it is null returns every
\* listed article exactly once, in descending published_at order (as
\* stated; articles that share a published_at are cut by the cursor).
C14_TraversalReturnsAllOnce ==
  (TraversalEnded /\ client.fresh /\ Listed(client.req[1]) = client.first) =>
    /\ SeenIds(client.seen) = client.first
    /\ NoRepeat(client.seen)
    /\ \A i, j \in 1..Len(client.seen) :
         i < j => client.seen[i].published_at.t >= client.seen[j].published_at.t

\* C15: when articles become listed between the page requests of a
\* traversal, the traversal returns no article twice and skips none of the
\* articles listed at its first request (as stated).
C15_StableUnderInserts ==
  [][ ( /\ client.pc = "page"
        /\ client.fresh
        /\ ListingAnswered
        /\ client'.resp[1].next_cursor = <<>>
        /\ Listed(client.req[1]) # client.first )
      => ( /\ NoRepeat(client'.seen)
           /\ client.first \subseteq SeenIds(client'.seen) ) ]_vars

\* C16: a page holds at most limit items; next_cursor is there exactly when
\* the request matches more rows than the page returns, and then it is the
\* published_at of the last item of the page.
C16_PageAndNextCursor ==
  [][ ListingAnswered =>
        LET req == client'.req[1]
            resp == client'.resp[1]
            matching == Matching(req.category, SourceIds(req.sources),
                                 IF req.cursor = <<>> THEN <<>>
                                 ELSE _parse_cursor(req.cursor[1]))
        IN /\ Len(resp.items) <= req.limit
           /\ (resp.next_cursor # <<>>) <=> (Cardinality(matching) > Len(resp.items))
           /\ resp.next_cursor # <<>> =>
                /\ resp.items # <<>>
                /\ resp.next_cursor[1] = resp.items[Len(resp.items)].published_at ]_vars

\* a full page that is also the last one: exactly limit rows matched
C16_Witness ==
  /\ client.pc = "page"
  /\ client.req[1].limit = 2
  /\ Len(client.resp[1].items) = 2
  /\ client.resp[1].next_cursor = <<>>

\* C17: a listing request whose sources parameter is the empty string, or
\* names no active source, is answered with no items and no next_cursor (as
\* stated; the empty string is taken for an omitted parameter).
C17_EmptySourceSetEmptyPage ==
  [][ ( /\ ListingAnswered
        /\ client'.req[1].sources # <<>>
        /\ RequestedActive(client'.req[1].sources[1]) = {} )
      => ( /\ client'.resp[1].items = <<>>
           /\ client'.resp[1].next_cursor = <<>> ) ]_vars

\* C18: when a listing request has a sources parameter, every item of the
\* page is of a source the parameter names and that is active (as stated;
\* with the empty string the articles of every source are returned).
C18_OnlyRequestedActiveSources ==
  [][ (ListingAnswered /\ client'.req[1].sources # <<>>) =>
        \A i \in 1..Len(client'.resp[1].items) :
          client'.resp[1].items[i].source \in
            RequestedActive(client'.req[1].sources[1]) ]_vars

\* C19: every item of a listing page is an Article with a Summary row, and
\* GET /v1/feed without sources and cursor returns every summarized Article
\* when they fit in the page.
C19_ListedIffSummarized ==
  [][ ListingAnswered =>
        LET req == client'.req[1]
            resp == client'.resp[1]
            summarized == {a.id : a \in {x \in articles :
                                           SummaryPkTaken(summaries, x.id)}}
        IN /\ SeenIds(resp.items) \subseteq summarized
           /\ ( /\ req.category = <<>>
                /\ req.sources = <<>>
                /\ req.cursor = <<>>
                /\ Cardinality(summarized) <= req.limit )
              => SeenIds(resp.items) = summarized ]_vars

\* the page lists an article the run ingested and summarized, while another
\* article of the store has no Summary yet
C19_Witness ==
  /\ client.pc = "page"
  /\ client.resp[1].status = 200
  /\ \E a \in articles : ~SummaryPkTaken(summaries, a.id)
  /\ \E a \in articles :
       /\ a.ingested_at = Now("run1")
       /\ a.id \in SeenIds(client.resp[1].items)

\* C20: the detail endpoint answers with the article for every id an
\* Article row has, summarized or not, and with not-found only when no row
\* has the id (as stated; the query joins Summary).
C20_DetailForEveryArticle ==
  [][ (client'.pc = "detail" /\ client.pc = "idle") =>
        (client'.resp[1].status = 200 <=> ArticlePkTaken(articles, client'.req[1])) ]_vars

\* the step is a listing request answered, with a page or with an error
RequestAnswered ==
  /\ client'.pc = "page"
  /\ client' # client

\* C21: a listing request for a category outside the allowed set is answered
\* with 404, and one with a cursor that is no timestamp with 400, whatever
\* the other parameters are (as stated; an empty source set is answered
\* before the cursor is looked at).
C21_ClientErrorsGet4xx ==
  [][ RequestAnswered =>
        LET req == client'.req[1]
            resp == client'.resp[1]
        IN IF req.category # <<>> /\ req.category[1] \notin VALID_CATEGORIES
           THEN resp.status = 404
           ELSE (req.cursor # <<>> /\ ~req.cursor[1].iso) => resp.status = 400 ]_vars

(***************************************************************************)
(* app/ingestion/rss.py: parse_rss_feed, as calls that may overlap         *)
(***************************************************************************)
\* socket.setdefaulttimeout(10)
FETCH_TIMEOUT == 10

\* what feedparser.parse can give: it raises, or it returns a result with
\* the bozo bit (the document was not well-formed, or could not be fetched),
\* the HTTP status when there was a response, and the entries it could read,
\* which it also salvages from a document that is not well-formed
FeedResults ==
  {[raises |-> TRUE, bozo |-> FALSE, status |-> <<>>, entries |-> 0]}
  \cup
  [raises : {FALSE}, bozo : BOOLEAN, status : {<<>>, <<200>>, <<404>>},
   entries : 0..MaxFeed]

\* the fetch went wrong: network error (raised, or bozo without a
\* response), non-success HTTP status, or a malformed document (bozo)
FetchLevelFailure(parsed) ==
  \/ parsed.raises
  \/ parsed.bozo
  \/ (parsed.status # <<>> /\ parsed.status[1] >= 400)

\* previous_timeout = socket.getdefaulttimeout()
FetchGetTimeout(c) ==
  /\ net.call[c].pc = "idle"
  /\ net' = [net EXCEPT !.call[c].pc = "set",
                        !.call[c].previous_timeout = net.timeout]
  /\ UNCHANGED <<sources, articles, summaries, run, sjob, cjob, failing, client, url>>

\* socket.setdefaulttimeout(10)
FetchSetTimeout(c) ==
  /\ net.call[c].pc = "set"
  /\ net' = [net EXCEPT !.call[c].pc = "parse", !.timeout = <<FETCH_TIMEOUT>>]
  /\ UNCHANGED <<sources, articles, summaries, run, sjob, cjob, failing, client, url>>

\* try: parsed_feed = feedparser.parse(feed_url)
FetchParse(c) ==
  /\ net.call[c].pc = "parse"
  /\ \E parsed \in FeedResults :
       net' = [net EXCEPT !.call[c].pc = "finally", !.call[c].parsed = <<parsed>>]
  /\ UNCHANGED <<sources, articles, summaries, run, sjob, cjob, failing, client, url>>

\* finally: socket.setdefaulttimeout(previous_timeout); after it the
\* except clause's return [] when feedparser.parse raised
FetchFinally(c) ==
  /\ net.call[c].pc = "finally"
  /\ net' = [net EXCEPT !.timeout = net.call[c].previous_timeout,
                        !.call[c].pc = IF net.call[c].parsed[1].raises
                                       THEN "returned" ELSE "entries",
                        !.call[c].items = 0]
  /\ UNCHANGED <<sources, articles, summaries, run, sjob, cjob, failing, client, url>>

\* the rest of the function: the bozo bit only prints a warning; a status
\* of 400 or more returns []; else the loop over the entries, which skips
\* those without title, link or date, and out of which a ValueError of
\* urlsplit or datetime is not caught here
FetchEntries(c) ==
  /\ net.call[c].pc = "entries"
  /\ LET parsed == net.call[c].parsed[1]
     IN IF parsed.status # <<>> /\ parsed.status[1] >= 400
        THEN net' = [net EXCEPT !.call[c].pc = "returned", !.call[c].items = 0]
        ELSE \/ \E k \in 0..parsed.entries :
                  net' = [net EXCEPT !.call[c].pc = "returned", !.call[c].items = k]
             \/ /\ parsed.entries > 0
                /\ net' = [net EXCEPT !.call[c].pc = "returned",
                                      !.call[c].raised = TRUE]
  /\ UNCHANGED <<sources, articles, summaries, run, sjob, cjob, failing, client, url>>

FetchStep(c) ==
  \/ FetchGetTimeout(c)
  \/ FetchSetTimeout(c)
  \/ FetchParse(c)
  \/ FetchFinally(c)
  \/ FetchEntries(c)

\* the process starts with no default timeout, or with one set by other code
InitFetch ==
  /\ sources = SeedSources
  /\ articles = {}
  /\ summaries = {}
  /\ run = [r \in Runs |-> IdleRun]
  /\ sjob = [j \in SJobs |-> IdleJob]
  /\ cjob = [j \in CJobs |-> IdleJob]
  /\ failing = {}
  /\ client = IdleClient
  /\ net \in {[IdleNet EXCEPT !.timeout = t, !.initial = t] : t \in {<<>>, <<30>>}}
  /\ url = NoUrl

NextFetch == \E c \in Calls : FetchStep(c)

SpecFetch == InitFetch /\ [][NextFetch]_vars

\* no call of parse_rss_feed is under way
NoCallRunning == \A c \in Calls : net.call[c].pc \in {"idle", "returned"}

\* C22: whenever no call of parse_rss_feed is under way, the default socket
\* timeout is the one the process had before the first call, whatever the
\* exit paths taken and however the calls overlapped (as stated).
C22_TimeoutRestored ==
  NoCallRunning => net.timeout = net.initial

\* C23: a call whose fetch failed (network error, status of 400 or more,
\* malformed document) has returned without raising, and with an empty list
\* (as stated).
C23_FetchFailureYieldsEmpty ==
  \A c \in Calls :
    (net.call[c].pc = "returned" /\ FetchLevelFailure(net.call[c].parsed[1]))
      => (~net.call[c].raised /\ net.call[c].items = 0)

(***************************************************************************)
(* app/ingestion/rss.py: _canonicalize_url on URLs as sequences of the     *)
(* characters that matter to it (a name such as utm_ or fbclid is one      *)
(* element, as is the leading scheme with its colon), with urlsplit,       *)
(* parse_qsl, urlencode and urlunsplit as urllib.parse of Python 3.11 has  *)
(* them                                                                    *)
(***************************************************************************)
MaxUrl == 4

\* the characters of the URLs looked at; a colon occurs only as the end of
\* a leading scheme
UrlChars == {"/", "a", "?", "#", "&", "=", "utm_"}

SeqsUpTo(S, n) == UNION {[1..k -> S] : k \in 0..n}

Urls ==
  SeqsUpTo(UrlChars, MaxUrl)
  \cup {<<"http:">> \o rest : rest \in SeqsUpTo(UrlChars, MaxUrl - 1)}

\* the least index from start on at which s has an element of T;
\* Len(s) + 1 when there is none (str.find)
FirstIn(s, T, start) ==
  LET S == {i \in start..Len(s) : s[i] \in T}
  IN IF S = {} THEN Len(s) + 1 ELSE CHOOSE i \in S : \A k \in S : i <= k

\* s.split(sep)
RECURSIVE Split(_, _)
Split(s, sep) ==
  LET i == FirstIn(s, {sep}, 1)
  IN IF i > Len(s) THEN <<s>>
     ELSE <<SubSeq(s, 1, i - 1)>> \o Split(SubSeq(s, i + 1, Len(s)), sep)

\* urlsplit(url): the scheme up to the colon; the netloc after a leading
\* "//" up to the first of "/?#"; the fragment after the first "#"; the
\* query after the first "?" of what is left
urlsplit(u) ==
  LET hasScheme == Len(u) > 0 /\ u[1] = "http:"
      r1 == IF hasScheme THEN Tail(u) ELSE u
      hasNetloc == Len(r1) >= 2 /\ r1[1] = "/" /\ r1[2] = "/"
      delim == FirstIn(r1, {"/", "?", "#"}, 3)
      r2 == IF hasNetloc THEN SubSeq(r1, delim, Len(r1)) ELSE r1
      h == FirstIn(r2, {"#"}, 1)
      r3 == SubSeq(r2, 1, h - 1)
      q == FirstIn(r3, {"?"}, 1)
  IN [scheme |-> IF hasScheme THEN "http" ELSE "",
      netloc |-> IF hasNetloc THEN SubSeq(r1, 3, delim - 1) ELSE <<>>,
      path |-> SubSeq(r3, 1, q - 1),
      query |-> SubSeq(r3, q + 1, Len(r3)),
      fragment |-> SubSeq(r2, h + 1, Len(r2))]

\* unquote and quote_plus, character by character
unquote(s) ==
  [i \in 1..Len(s) |->
     CASE s[i] = "%2F" -> "/"
       [] s[i] = "%3F" -> "?"
       [] s[i] = "%3D" -> "="
       [] s[i] = "%23" -> "#"
       [] s[i] = "%26" -> "&"
       [] OTHER -> s[i]]

quote_plus(s) ==
  [i \in 1..Len(s) |->
     CASE s[i] = "/" -> "%2F"
       [] s[i] = "?" -> "%3F"
       [] s[i] = "=" -> "%3D"
       [] s[i] = "#" -> "%23"
       [] s[i] = "&" -> "%26"
       [] OTHER -> s[i]]

\* one field of the query: name and value at the first "=", a blank value
\* when there is none (keep_blank_values=True)
QueryField(name_value) ==
  LET e == FirstIn(name_value, {"="}, 1)
  IN [key |-> unquote(SubSeq(name_value, 1, e - 1)),
      value |-> unquote(SubSeq(name_value, e + 1, Len(name_value)))]

\* parse_qsl(qs, keep_blank_values=True): empty pieces are skipped
parse_qsl(qs) ==
  IF qs = <<>> THEN <<>>
  ELSE LET query_args == Split(qs, "&")
           F[i \in 0..Len(query_args)] ==
             IF i = 0 THEN <<>>
             ELSE IF query_args[i] = <<>> THEN F[i - 1]
                  ELSE Append(F[i - 1], QueryField(query_args[i]))
       IN F[Len(query_args)]

TRACKING_QUERY_PARAMS ==
  {<<"fbclid">>, <<"gclid">>, <<"igshid">>, <<"mc_cid">>, <<"mc_eid">>}

\* a variant of IsTracking that knows the utm_ prefix only
IsTracking_PrefixOnly(key) ==
  Len(key) > 0 /\ key[1] = "utm_"

\* key.startswith("utm_") or key in TRACKING_QUERY_PARAMS
IsTracking(key) ==
  \/ (Len(key) > 0 /\ key[1] = "utm_")
  \/ key \in TRACKING_QUERY_PARAMS

\* the loop that builds kept_params
KeptParams(params) ==
  LET F[i \in 0..Len(params)] ==
        IF i = 0 THEN <<>>
        ELSE IF IsTracking(params[i].key) THEN F[i - 1]
             ELSE Append(F[i - 1], params[i])
  IN F[Len(params)]

\* urlencode(kept_params, doseq=True)
urlencode(params) ==
  LET F[i \in 0..Len(params)] ==
        IF i = 0 THEN <<>>
        ELSE (IF i = 1 THEN <<>> ELSE F[i - 1] \o <<"&">>)
             \o quote_plus(params[i].key) \o <<"=">> \o quote_plus(params[i].value)
  IN F[Len(params)]

\* urlunsplit((scheme, netloc, path, query, fragment)): the "//" of the
\* netloc is written when there is a netloc, or a scheme and a path that
\* does not itself start with "//"
urlunsplit(scheme, netloc, path, query, fragment) ==
  LET url1 == IF \/ netloc # <<>>
                 \/ (scheme # "" /\ ~(Len(path) >= 2 /\ path[1] = "/" /\ path[2] = "/"))
              THEN <<"/", "/">> \o netloc
                   \o (IF path # <<>> /\ path[1] # "/" THEN <<"/">> \o path ELSE path)
              ELSE path
      url2 == IF scheme # "" THEN <<"http:">> \o url1 ELSE url1
      url3 == IF query # <<>> THEN url2 \o <<"?">> \o query ELSE url2
  IN IF fragment # <<>> THEN url3 \o <<"#">> \o fragment ELSE url3

\* _canonicalize_url(url) on a sequence of characters
canonicalize_chars(u) ==
  LET parts == urlsplit(u)
      canonical_query == urlencode(KeptParams(parse_qsl(parts.query)))
  IN urlunsplit(parts.scheme, parts.netloc, parts.path, canonical_query, <<>>)

\* fragments and tracking parameters to tell two URLs apart by
Fragments == {<<>>, <<"#">>, <<"#", "a">>, <<"#", "?", "utm_">>}

TrackingFields == {<<"utm_">>, <<"utm_", "a", "=", "a">>, <<"fbclid", "=", "/">>}

\* the URLs that are u with another fragment, or with another fragment and
\* one more tracking parameter in the query: as the first field, as the
\* last, or after one of the "&"
Variants(u) ==
  LET h == FirstIn(u, {"#"}, 1)
      base == SubSeq(u, 1, h - 1)
      q == FirstIn(base, {"?"}, 1)
      Before(i) == SubSeq(base, 1, i)
      After(i) == SubSeq(base, i + 1, Len(base))
      Bases ==
        {base} \cup
        (IF q > Len(base)
         THEN {base \o <<"?">> \o t : t \in TrackingFields}
         ELSE {base \o <<"&">> \o t : t \in TrackingFields}
              \cup {Before(i) \o t \o <<"&">> \o After(i) :
                      t \in TrackingFields,
                      i \in {q} \cup {k \in (q + 1)..Len(base) : base[k] = "&"}})
  IN {b \o f : b \in Bases, f \in Fragments} \ {u}

\* a feed entry's link
UrlPick ==
  /\ url.pc = "none"
  /\ \E u \in Urls : url' = [url EXCEPT !.pc = "picked", !.u = <<u>>]
  /\ UNCHANGED <<sources, articles, summaries, run, sjob, cjob, failing, client, net>>

\* parse_rss_feed: original_url = _canonicalize_url(link)
UrlCanonicalize ==
  /\ url.pc = "picked"
  /\ url' = [url EXCEPT !.pc = "once", !.once = <<canonicalize_chars(url.u[1])>>]
  /\ UNCHANGED <<sources, articles, summaries, run, sjob, cjob, failing, client, net>>

\* _persist_sources_and_articles:
\* canonical_url = canonicalize_url(parsed_article["original_url"])
UrlCanonicalizeAgain ==
  /\ url.pc = "once"
  /\ url' = [url EXCEPT !.pc = "twice", !.twice = <<canonicalize_chars(url.once[1])>>]
  /\ UNCHANGED <<sources, articles, summaries, run, sjob, cjob, failing, client, net>>

\* another entry links to the same page with other tracking parameters and
\* another fragment
UrlVariant ==
  /\ url.pc = "twice"
  /\ \E v \in Variants(url.u[1]) :
       url' = [url EXCEPT !.pc = "variant", !.v = <<v>>,
                          !.vonce = <<canonicalize_chars(v)>>]
  /\ UNCHANGED <<sources, articles, summaries, run, sjob, cjob, failing, client, net>>

InitUrl ==
  /\ sources = SeedSources
  /\ articles = {}
  /\ summaries = {}
  /\ run = [r \in Runs |-> IdleRun]
  /\ sjob = [j \in SJobs |-> IdleJob]
  /\ cjob = [j \in CJobs |-> IdleJob]
  /\ failing = {}
  /\ client = IdleClient
  /\ net = IdleNet
  /\ url = NoUrl

NextUrl ==
  \/ UrlPick
  \/ UrlCanonicalize
  \/ UrlCanonicalizeAgain
  \/ UrlVariant

SpecUrl == InitUrl /\ [][NextUrl]_vars

\* C24: the canonical form of a canonical form is that canonical form, for
\* every URL (as stated).
C24_CanonicalizeIdempotent ==
  url.pc = "twice" => url.twice = url.once

\* C25: a URL that differs from another in tracking parameters and fragment
\* only has the same canonical form; that form has no fragment, and its
\* query holds the parameters that are no tracking parameters, in the order
\* they had.
C25_TrackingAndFragmentIgnored ==
  url.pc = "variant" =>
    /\ url.vonce = url.once
    /\ urlsplit(url.vonce[1]).fragment = <<>>
    /\ parse_qsl(urlsplit(url.vonce[1]).query)
         = KeptParams(parse_qsl(urlsplit(url.v[1]).query))
    /\ parse_qsl(urlsplit(url.once[1]).query)
         = KeptParams(parse_qsl(urlsplit(url.u[1]).query))

\* two URLs with two parameters that are kept; the second URL has a
\* fragment the first has not, and a tracking parameter between the two
C25_Witness ==
  /\ url.pc = "variant"
  /\ urlsplit(url.v[1]).fragment # urlsplit(url.u[1]).fragment
  /\ Len(parse_qsl(urlsplit(url.once[1]).query)) = 2
  /\ Len(parse_qsl(urlsplit(url.v[1]).query)) = 3
  /\ parse_qsl(urlsplit(url.v[1]).query)[2].key = <<"fbclid">>

\* C26: the primary_category of every Article is absent, or one of the
\* allowed labels, or the fallback label, in every reachable state of the
\* category backfill.
C26_PrimaryCategoryInAllowedSet ==
  \A a \in articles :
    a.primary_category \in ({None} \cup ALLOWED_CATEGORIES \cup {FALLBACK_CATEGORY})

\* an allowed label is stored, and the classifier's answer for another
\* article, which it could be called for, was turned into the fallback
C26_Witness ==
  /\ \E a \in articles : a.primary_category \in ALLOWED_CATEGORIES
  /\ \E j \in CJobs :
       /\ cjob[j].pc = "commit"
       /\ cjob[j].val = <<FALLBACK_CATEGORY>>
       /\ cjob[j].batch[cjob[j].bi] \notin failing

(***************************************************************************)
(* One run of each backfill job, side by side: the summary backfill, whose *)
(* writes make articles match the category backfill's query, and a         *)
(* category backfill, whose own writes take articles out of it.            *)
(***************************************************************************)
\* the category job that runs beside the summary job
BackfillCJobs == {"cat1"}

SumRun(j) ==
  \/ SumCount(j)
  \/ SumFetch(j)
  \/ SumItem(j)
  \/ SumCommit(j)

CatRun(j) ==
  \/ CatCount(j)
  \/ CatFetch(j)
  \/ CatItem(j)
  \/ CatCommit(j)
  \/ CatCommitFallback(j)

\* the store the runs start from: the catalog's articles, none or the first
\* of them summarized; the generator and the classifier fail for no article
\* or for one
InitBackfill ==
  /\ sources = SeedSources
  /\ articles = CatalogArticles
  /\ summaries \in {{}, {CatalogSummary(CatalogIds[1])}}
  /\ run = [r \in Runs |-> IdleRun]
  /\ sjob = [j \in SJobs |-> IdleJob]
  /\ cjob = [j \in CJobs |-> IdleJob]
  /\ failing \in {{}} \cup {{CatalogIds[i]} : i \in 1..Len(CatalogIds)}
  /\ client = IdleClient
  /\ net = IdleNet
  /\ url = NoUrl

NextBackfill ==
  \/ \E j \in SJobs : SumRun(j)
  \/ \E j \in BackfillCJobs : CatRun(j)

\* each job is a process of its own, and each of its steps returns
SpecBackfill ==
  /\ InitBackfill
  /\ [][NextBackfill]_vars
  /\ \A j \in SJobs : WF_vars(SumRun(j))
  /\ \A j \in BackfillCJobs : WF_vars(CatRun(j))

\* one step of a job, from record old to record new, with missing the
\* count of matching articles before the step: the target is fixed when the
\* run begins, at no more than that count, and below it only by a cap; the
\* cursor moves with every article processed, and only upwards, to an
\* article not processed before; no more articles are processed than the
\* target
CursorStepOk(old, new, missing) ==
  /\ new.processed <= new.target_total
  /\ Cardinality(new.touched) = new.processed
  /\ IF old.pc = "idle"
     THEN /\ new.target_total <= missing
          /\ new.target_total = missing \/ new.target_total <= MaxCap
     ELSE new.target_total = old.target_total
  /\ (new.processed # old.processed) =>
       /\ new.processed = old.processed + 1
       /\ new.last_id # <<>>
       /\ new.last_id # old.last_id
       /\ new.last_id[1] \notin old.touched
  /\ (new.last_id # old.last_id) =>
       /\ new.processed = old.processed + 1
       /\ new.last_id # <<>>
       /\ old.last_id # <<>> => IdRank(new.last_id[1]) > IdRank(old.last_id[1])

NoAbortStep(old, new, matching) ==
  /\ (new.lost # old.lost) =>
       /\ articles' = articles
       /\ summaries' = summaries
       /\ new.pc = IF old.bi < Len(old.batch) THEN "item" ELSE "fetch"
       /\ new.processed = old.processed
  /\ (new.pc = "done" /\ old.pc # "done") =>
       \/ old.pc = "idle" /\ matching = {}
       \/ /\ old.pc = "fetch"
          /\ \/ old.processed >= old.target_total
             \/ old.last_id # <<>>
                /\ \A x \in matching : IdRank(x) <= IdRank(old.last_id[1])

\* C28: a failure at one article does not end a backfill run: the failed
\* write is rolled back, the run goes on with the next article, and ends
\* only at the cap or when no matching article is left after the cursor.
C28_ItemFailureDoesNotAbort ==
  /\ [][ /\ \A j \in SJobs : NoAbortStep(sjob[j], sjob'[j], MissingSummaryIds)
         /\ \A j \in BackfillCJobs : NoAbortStep(cjob[j], cjob'[j], MissingCategoryIds) ]_vars
  /\ \A j \in SJobs : [](sjob[j].lost # {} => <>(sjob[j].pc = "done"))
  /\ \A j \in BackfillCJobs : [](cjob[j].lost # {} => <>(cjob[j].pc = "done"))

\* a summary run in batches of one has ended; the write for one article was
\* lost, and a later article, of a later batch, has its Summary from it
C28_Witness ==
  \E j \in SJobs :
    /\ sjob[j].pc = "done"
    /\ sjob[j].batch_size = 1
    /\ \E x \in sjob[j].lost, y \in sjob[j].touched :
         /\ IdRank(y) > IdRank(x)
         /\ \E s \in summaries : s.article_id = y /\ s.generated_at = Now(j)

====
